---- MODULE Spec2Model ----
(***************************************************************************)
(* queuectl: a job table in SQLite (models.py), worker threads that poll   *)
(* it, claim a job, run its command and record the outcome (worker.py),    *)
(* and the command line that submits jobs and retries dead ones (cli.py).  *)
(*                                                                         *)
(* Every worker iteration and every command-line call opens its own ORM    *)
(* session (models.get_db_session).  A session is a unit of work: a query  *)
(* loads rows into objects, assignments change the objects only, and       *)
(* session.commit() sends one UPDATE per changed object, naming the        *)
(* columns whose value differs from the loaded one, keyed by the row's id. *)
(* After a commit the objects are expired and the next attribute access    *)
(* loads the row again.  The atomic steps of the model are therefore the   *)
(* single statements that reach the database: a SELECT, or a commit.       *)
(*                                                                         *)
(* Time is in seconds.  The clock of the model moves in whole minutes, the *)
(* granularity of every backoff delay.                                     *)
(***************************************************************************)
EXTENDS Integers, Sequences, FiniteSets, TLC

\* ------------------------------------------------------------------ bounds
NumWorkers == 2
MaxJobs == 2
MaxTicks == 2
\* Worker threads plus jobs: two workers share one job, one worker has two.
MaxLoad == 3

\* ------------------------------------------------------- program constants
DefaultMaxRetries == 3
DefaultBackoffBase == 2
SecondsPerMinute == 60

\* JobStatus (models.py); the string values are the enum's values.
PENDING == "pending"
PROCESSING == "processing"
COMPLETED == "completed"
FAILED == "failed"
DEAD == "dead"
JobStatus == {PENDING, PROCESSING, COMPLETED, FAILED, DEAD}

\* A nullable DateTime column: None is the empty tuple, a time t is <<t>>.
None == << >>
At(t) == << t >>

\* A nullable Text column (Job.error).
NoError == "NULL"
ErrExit == "Command failed with return code"
ErrTimeout == "Job timed out after 1 hour"

\* A command-line option of type int: None when it was not given, else <<value>>.
MaxRetriesOpts == {None, At(0), At(-1), At(1), At(2)}
BackoffBaseOpts == {None, At(0), At(1)}

VARIABLES
    now,      \* datetime.utcnow(), in seconds
    jobs,     \* the jobs table: jobs[id] is the row with that id
    pc,       \* pc[w]: where worker w is in Worker.start / _process_jobs
    cur,      \* cur[w]: id of the job worker w's session holds, 0 if none
    mem,      \* mem[w]: the attributes of that job object as the session loaded them
    adds,     \* add_command calls that built their Job and have not inserted it yet
    dlq,      \* the Dead rows a running retry_dlq has loaded (id -> row), or << >>
    hist,     \* hist[id]: history of job id, for stating the claims (not program state)
    shutdown_event,  \* start_workers' threading.Event: set by the signal handler
    stopped   \* start_workers has joined every worker thread and returned

vars == << now, jobs, pc, cur, mem, adds, dlq, hist, shutdown_event, stopped >>

Columns == {"status", "created_at", "started_at", "completed_at", "attempts",
            "max_attempts", "error", "backoff_base", "next_retry_at"}

\* A Job as its constructor and the column defaults make it.
NewJob(max_attempts, backoff_base, created_at) ==
    [ status |-> PENDING, created_at |-> created_at, started_at |-> None,
      completed_at |-> None, attempts |-> 0, max_attempts |-> max_attempts,
      error |-> NoError, backoff_base |-> backoff_base, next_retry_at |-> None ]

\* A session object that holds no loaded attributes (no job, or expired by a commit).
Expired == [ c \in Columns |-> None ]

NewHist == [ execs |-> 0, fails |-> 0, oks |-> 0 ]

Ids == 1..Len(jobs)

\* The worker threads start_workers(count) started.
Workers == DOMAIN pc

\* Python's (opt or default) on an optional int: None and 0 are falsy.
Or(opt, default) == IF opt = None THEN default ELSE IF opt[1] = 0 THEN default ELSE opt[1]

\* b ** e for an exponent e >= 0 (attempts is never negative).
RECURSIVE Pow(_, _)
Pow(b, e) == IF e <= 0 THEN 1 ELSE b * Pow(b, e - 1)

\* The delay _handle_failure schedules, in seconds.
Backoff(job) == Pow(job.backoff_base, job.attempts) * SecondsPerMinute

\* The UPDATE a commit sends for one object: the columns whose value differs
\* from the loaded one are written to the row, the others are left as they are.
\* The columns in stamped were assigned from datetime.utcnow(): its microsecond
\* value differs from the one loaded earlier even where the minute clock of the
\* model shows the same time, so they are always written.
Flush(row, loaded, new, stamped) ==
    [ c \in Columns |->
        IF c \in stamped \/ new[c] # loaded[c] THEN new[c] ELSE row[c] ]

\* ------------------------------------------------------------ the queries

\* The filter of the worker's query: Pending, and next_retry_at null or passed.
Eligible(row, t) ==
    /\ row.status = PENDING
    /\ \/ row.next_retry_at = None
       \/ row.next_retry_at[1] <= t

EligibleIds == { i \in Ids : Eligible(jobs[i], now) }

\* query.order_by(Job.created_at).first() over the set S of matching ids: a
\* row of the smallest created_at.  The query names no second sort key, so
\* SQL leaves open which of several rows of equal created_at comes first.
First(S) ==
    { i \in S : \A k \in S : jobs[i].created_at[1] <= jobs[k].created_at[1] }

\* retry_dlq's query: the Dead rows, all of them or those whose id was given.
DeadIds(ids, retry_all) ==
    { i \in Ids : jobs[i].status = DEAD /\ (retry_all \/ i \in ids) }

\* ------------------------------------------------------------------- Init

Init ==
    /\ now = 0
    /\ jobs = << >>
    /\ \E count \in 1..NumWorkers :
         /\ pc = [ w \in 1..count |-> "idle" ]
         /\ cur = [ w \in 1..count |-> 0 ]
         /\ mem = [ w \in 1..count |-> Expired ]
    /\ adds = << >>
    /\ dlq = << >>
    /\ hist = << >>
    /\ shutdown_event = FALSE
    /\ stopped = FALSE

\* The clock moves on.
Tick ==
    /\ now < MaxTicks * SecondsPerMinute
    /\ now' = now + SecondsPerMinute
    /\ UNCHANGED << jobs, pc, cur, mem, adds, dlq, hist, shutdown_event, stopped >>

\* -------------------------------------------------------------- add_command

\* add_command builds the Job; created_at's default is evaluated here.
AddBuild(max_retries, backoff_base) ==
    /\ Len(jobs) + Len(adds) < MaxJobs
    /\ Cardinality(Workers) + Len(jobs) + Len(adds) < MaxLoad
    /\ adds' = Append(adds, NewJob(Or(max_retries, DefaultMaxRetries),
                                   Or(backoff_base, DefaultBackoffBase), At(now)))
    /\ UNCHANGED << now, jobs, pc, cur, mem, dlq, hist, shutdown_event, stopped >>

\* session.commit(): the INSERT; the table gives the row the next id.
AddCommit(n) ==
    /\ n \in 1..Len(adds)
    /\ jobs' = Append(jobs, adds[n])
    /\ hist' = Append(hist, NewHist)
    /\ adds' = SubSeq(adds, 1, n - 1) \o SubSeq(adds, n + 1, Len(adds))
    /\ UNCHANGED << now, pc, cur, mem, dlq, shutdown_event, stopped >>

\* ------------------------------------------------------------------ Worker

\* _process_jobs, the query: no row, and the worker returns to its sleep.
SelectNone(w) ==
    /\ pc[w] = "idle"
    /\ EligibleIds = {}
    /\ pc' = [pc EXCEPT ![w] = "sleep"]
    /\ UNCHANGED << now, jobs, cur, mem, adds, dlq, hist, shutdown_event, stopped >>

\* _process_jobs, the query: the first eligible row is loaded into the session.
SelectJob(w) ==
    /\ pc[w] = "idle"
    /\ EligibleIds # {}
    /\ \E j \in First(EligibleIds) :
         /\ cur' = [cur EXCEPT ![w] = j]
         /\ mem' = [mem EXCEPT ![w] = jobs[j]]
    /\ pc' = [pc EXCEPT ![w] = "selected"]
    /\ UNCHANGED << now, jobs, adds, dlq, hist, shutdown_event, stopped >>

\* The job object after "mark job as processing".
Claimed(job, t) ==
    [job EXCEPT !.status = PROCESSING, !.attempts = job.attempts + 1,
                !.started_at = At(t)]

\* _process_jobs, the commit of the claim; it expires the job object.
ClaimCommit(w) ==
    /\ pc[w] = "selected"
    /\ jobs' = [jobs EXCEPT ![cur[w]] = Flush(@, mem[w], Claimed(mem[w], now), {"started_at"})]
    /\ mem' = [mem EXCEPT ![w] = Expired]
    /\ pc' = [pc EXCEPT ![w] = "claimed"]
    /\ UNCHANGED << now, cur, adds, dlq, hist, shutdown_event, stopped >>

\* _execute_job up to Popen: reading job.id reloads the expired object from
\* its row, then the command is started.
ExecStart(w) ==
    /\ pc[w] = "claimed"
    /\ mem' = [mem EXCEPT ![w] = jobs[cur[w]]]
    /\ hist' = [hist EXCEPT ![cur[w]].execs = @ + 1]
    /\ pc' = [pc EXCEPT ![w] = "running"]
    /\ UNCHANGED << now, jobs, cur, adds, dlq, shutdown_event, stopped >>

\* The job object after _handle_success.
Succeeded(job, t) ==
    [job EXCEPT !.status = COMPLETED, !.completed_at = At(t)]

\* A _handle_failure that records a failure short of the cap as status Failed.
FailedAsFailed(job, error, t) ==
    IF job.attempts >= job.max_attempts
    THEN [job EXCEPT !.error = error, !.status = DEAD, !.completed_at = At(t)]
    ELSE [job EXCEPT !.error = error, !.status = FAILED,
                     !.next_retry_at = At(t + Backoff(job))]

\* The job object after _handle_failure.
Failed(job, error, t) ==
    IF job.attempts >= job.max_attempts
    THEN [job EXCEPT !.error = error, !.status = DEAD, !.completed_at = At(t)]
    ELSE [job EXCEPT !.error = error, !.status = PENDING,
                     !.next_retry_at = At(t + Backoff(job))]

\* The column _handle_failure assigns from datetime.utcnow().
FailedStamps(job) ==
    IF job.attempts >= job.max_attempts THEN {"completed_at"} ELSE {"next_retry_at"}

\* The command exits 0: _handle_success and its commit; _process_jobs returns.
ExecSuccess(w) ==
    /\ pc[w] = "running"
    /\ jobs' = [jobs EXCEPT ![cur[w]] = Flush(@, mem[w], Succeeded(mem[w], now), {"completed_at"})]
    /\ hist' = [hist EXCEPT ![cur[w]].oks = @ + 1]
    /\ mem' = [mem EXCEPT ![w] = Expired]
    /\ cur' = [cur EXCEPT ![w] = 0]
    /\ pc' = [pc EXCEPT ![w] = "sleep"]
    /\ UNCHANGED << now, adds, dlq, shutdown_event, stopped >>

\* The command exits non-zero or runs into the timeout: _handle_failure and
\* its commit; _process_jobs returns.  The hour of the timeout is not measured
\* on the clock of the model: either failure may end a run at any time.
ExecFailure(w, error) ==
    /\ pc[w] = "running"
    /\ jobs' = [jobs EXCEPT ![cur[w]] =
                  Flush(@, mem[w], Failed(mem[w], error, now), FailedStamps(mem[w]))]
    /\ hist' = [hist EXCEPT ![cur[w]].fails = @ + 1]
    /\ mem' = [mem EXCEPT ![w] = Expired]
    /\ cur' = [cur EXCEPT ![w] = 0]
    /\ pc' = [pc EXCEPT ![w] = "sleep"]
    /\ UNCHANGED << now, adds, dlq, shutdown_event, stopped >>

\* Worker.start: time.sleep(1) is over and the loop tests its condition.
Wake(w) ==
    /\ pc[w] = "sleep"
    /\ ~ shutdown_event
    /\ pc' = [pc EXCEPT ![w] = "idle"]
    /\ UNCHANGED << now, jobs, cur, mem, adds, dlq, hist, shutdown_event, stopped >>

\* ---------------------------------------------------------------- retry_dlq

\* retry_dlq, the query: the matching Dead rows are loaded.
RetrySelect(ids, retry_all) ==
    /\ dlq = << >>
    /\ ids # {} \/ retry_all
    /\ DeadIds(ids, retry_all) # {}
    /\ dlq' = [ i \in DeadIds(ids, retry_all) |-> jobs[i] ]
    /\ UNCHANGED << now, jobs, pc, cur, mem, adds, hist, shutdown_event, stopped >>

\* The job object after retry_dlq's loop body.
Reset(job) ==
    [job EXCEPT !.status = PENDING, !.attempts = 0, !.error = NoError,
                !.completed_at = None, !.next_retry_at = None]

\* retry_dlq, the commit: one UPDATE per loaded row.
RetryCommit ==
    /\ dlq # << >>
    /\ jobs' = [ i \in Ids |-> IF i \in DOMAIN dlq
                                THEN Flush(jobs[i], dlq[i], Reset(dlq[i]), {})
                                ELSE jobs[i] ]
    /\ hist' = [ i \in Ids |-> IF i \in DOMAIN dlq THEN NewHist ELSE hist[i] ]
    /\ dlq' = << >>
    /\ UNCHANGED << now, pc, cur, mem, adds, shutdown_event, stopped >>

\* --------------------------------------------------------------------- Next

Next ==
    \/ Tick
    \/ \E m \in MaxRetriesOpts, b \in BackoffBaseOpts : AddBuild(m, b)
    \/ \E n \in 1..MaxJobs : AddCommit(n)
    \/ \E w \in Workers : SelectNone(w)
    \/ \E w \in Workers : SelectJob(w)
    \/ \E w \in Workers : ClaimCommit(w)
    \/ \E w \in Workers : ExecStart(w)
    \/ \E w \in Workers : ExecSuccess(w)
    \/ \E w \in Workers, e \in {ErrExit, ErrTimeout} : ExecFailure(w, e)
    \/ \E w \in Workers : Wake(w)
    \/ \E ids \in SUBSET (1..MaxJobs), a \in BOOLEAN : RetrySelect(ids, a)
    \/ RetryCommit

Spec == Init /\ [][Next]_vars

\* ------------------------------------------------------------------ claims

\* Worker w has claimed job j and not yet recorded its outcome.
InFlight(w, j) == pc[w] \in {"claimed", "running"} /\ cur[w] = j

Holders(j) == { w \in Workers : InFlight(w, j) }

\* The step is retry_dlq's commit and job j is among the rows it resets.
IsRetryOf(j) == dlq # << >> /\ dlq' = << >> /\ j \in DOMAIN dlq

\* C1: mutual exclusion of the claim: a job is never the in-flight job of two
\* workers at once (of the workers that select the one eligible job, exactly
\* one obtains it).
C1_MutualExclusion ==
    \A j \in Ids : Cardinality(Holders(j)) <= 1

\* C2: exactly once per attempt: a job's attempts equals the number of
\* executions of its command started since its creation or last DLQ reset
\* (counting the execution a worker that has just claimed is about to start).
C2_AttemptsCountExecutions ==
    \A j \in Ids :
        jobs[j].attempts
          = hist[j].execs + Cardinality({ w \in Holders(j) : pc[w] = "claimed" })

\* C3: Completed and Dead are terminal: no step changes any field of a
\* Completed job, and none changes a field of a Dead job except retry_dlq
\* applied to it.
C3_TerminalStates ==
    [][ \A j \in Ids :
          /\ jobs[j].status = COMPLETED => jobs'[j] = jobs[j]
          /\ jobs[j].status = DEAD /\ ~IsRetryOf(j) => jobs'[j] = jobs[j] ]_vars

\* C4: the only status changes are Pending -> Processing, Processing ->
\* Completed, Processing -> Pending, Processing -> Dead, and Dead -> Pending
\* by retry_dlq alone.
C4_StatusTransitions ==
    [][ \A j \in Ids :
          jobs'[j].status # jobs[j].status =>
            \/ << jobs[j].status, jobs'[j].status >> \in
                  { << PENDING, PROCESSING >>, << PROCESSING, COMPLETED >>,
                    << PROCESSING, PENDING >>, << PROCESSING, DEAD >> }
            \/ /\ << jobs[j].status, jobs'[j].status >> = << DEAD, PENDING >>
               /\ IsRetryOf(j) ]_vars

\* C5: dead-letter transition: a job with max_attempts = N >= 1 whose every
\* execution fails is Pending with next_retry_at set after each of its failures
\* 1..N-1, is Dead after its N-th failure having been executed exactly N
\* times, and is never Dead after fewer than N failures.
C5_DeadAfterNFailures ==
    \A j \in Ids :
        LET N == jobs[j].max_attempts
            k == hist[j].fails
        IN  N >= 1 /\ hist[j].oks = 0 =>
              /\ jobs[j].status = DEAD => k >= N
              /\ k >= N => jobs[j].status = DEAD /\ k = N /\ hist[j].execs = N
              /\ k >= 1 /\ k < N /\ Holders(j) = {} =>
                    jobs[j].status = PENDING /\ jobs[j].next_retry_at # None

\* Worker w's step records a failed execution.
FailureStep(w) ==
    /\ pc[w] = "running" /\ pc'[w] = "sleep"
    /\ hist'[cur[w]].fails = hist[cur[w]].fails + 1

\* C6: retry scheduling: a failure with attempts < max_attempts records status
\* Pending, next_retry_at = now + backoff_base^attempts * 60 s and the error,
\* leaves completed_at null and attempts unchanged.
C6_RetryScheduling ==
    [][ \A w \in Workers :
          LET j == cur[w] IN
          FailureStep(w) /\ jobs[j].attempts < jobs[j].max_attempts =>
            /\ jobs'[j].status = PENDING
            /\ jobs'[j].next_retry_at
                 = At(now + Pow(jobs[j].backoff_base, jobs[j].attempts) * SecondsPerMinute)
            /\ jobs'[j].error \in {ErrExit, ErrTimeout}
            /\ jobs'[j].completed_at = None
            /\ jobs'[j].attempts = jobs[j].attempts ]_vars

\* C7: backoff eligibility: a job that is Pending with next_retry_at later
\* than now is not claimed: no step makes it Processing or raises its attempts.
C7_BackoffEligibility ==
    [][ \A j \in Ids :
          /\ jobs[j].status = PENDING
          /\ jobs[j].next_retry_at # None
          /\ jobs[j].next_retry_at[1] > now
          => jobs'[j].status # PROCESSING /\ jobs'[j].attempts <= jobs[j].attempts ]_vars

\* Job j is the eligible job of the smallest created_at, and of the smallest
\* id among those.
OldestEligible(j) ==
    /\ j \in EligibleIds
    /\ \A k \in EligibleIds \ {j} :
          \/ jobs[j].created_at[1] < jobs[k].created_at[1]
          \/ jobs[j].created_at[1] = jobs[k].created_at[1] /\ j < k

\* C8: claim ordering: the job a claim returns is, when the claim takes it,
\* the eligible job of the smallest created_at, of the smallest id among equal
\* created_at; the query returns none only when no job is eligible.
C8_ClaimOrdering ==
    [][ \A w \in Workers :
          /\ pc[w] = "selected" /\ pc'[w] = "claimed" => OldestEligible(cur[w])
          /\ pc[w] = "idle" /\ pc'[w] = "sleep" => EligibleIds = {} ]_vars

\* C9: every Dead job has attempts >= max_attempts and completed_at set.
C9_DeadInvariant ==
    \A j \in Ids :
        jobs[j].status = DEAD =>
            jobs[j].attempts >= jobs[j].max_attempts /\ jobs[j].completed_at # None

\* C10: attempts <= max_attempts for every job that is not in Processing.
C10_AttemptsWithinMax ==
    \A j \in Ids :
        jobs[j].status # PROCESSING => jobs[j].attempts <= jobs[j].max_attempts

\* C11: DLQ reset: retry_dlq applied to a Dead job leaves it Pending with
\* attempts 0 and error, completed_at and next_retry_at null, so that a
\* worker's next query finds it eligible at once; the job then has a fresh
\* budget: it is Dead again only after max_attempts executions since the reset.
C11_DlqReset ==
    [][ \A j \in Ids :
          /\ IsRetryOf(j) /\ jobs[j].status = DEAD =>
                /\ jobs'[j].status = PENDING
                /\ jobs'[j].attempts = 0
                /\ jobs'[j].error = NoError
                /\ jobs'[j].completed_at = None
                /\ jobs'[j].next_retry_at = None
                /\ Eligible(jobs'[j], now')
          /\ jobs[j].status # DEAD /\ jobs'[j].status = DEAD =>
                hist'[j].execs >= jobs[j].max_attempts ]_vars

\* C12: frame of retry_dlq: its commit resets exactly the Dead jobs its query
\* matched (the number it reports) and leaves every job that is Pending,
\* Processing or Completed, and every Dead job it did not match, unchanged.
C12_RetryFrame ==
    [][ dlq # << >> /\ dlq' = << >> =>
          \A j \in Ids :
            /\ j \notin DOMAIN dlq => jobs'[j] = jobs[j]
            /\ jobs[j].status # DEAD => jobs'[j] = jobs[j]
            /\ j \in DOMAIN dlq /\ jobs[j].status = DEAD =>
                  jobs'[j].status = PENDING ]_vars

\* C13: submission validation: add_command rejects a non-positive
\* --max-retries and persists nothing, so no job record in the store has a
\* max_attempts below 1.
C13_SubmissionValidation ==
    \A j \in Ids : jobs[j].max_attempts >= 1

\* C14: backoff escalation: when a worker records the failure of execution
\* k+1 of a job (k >= 1, k+1 < max_attempts), the delay it schedules is
\* strictly greater than the delay the job's backoff_base gives after
\* execution k.
C14_BackoffEscalation ==
    [][ \A w \in Workers :
          FailureStep(w) /\ mem[w].attempts >= 2
                         /\ mem[w].attempts < mem[w].max_attempts =>
            /\ jobs'[cur[w]].next_retry_at = At(now + Backoff(mem[w]))
            /\ Backoff(mem[w]) >
                 Backoff([mem[w] EXCEPT !.attempts = @ - 1]) ]_vars

\* ------------------------------------------------------- persistence errors

\* A store operation of worker w's cycle raises, and the store stays
\* unreachable to the end of that _process_jobs call: the query (idle), the
\* commit of the claim (selected), the reload of the expired job at the head of
\* _execute_job (claimed), or the commit of the outcome and that of the
\* fallback _handle_failure (running).  _process_jobs logs, rolls back, closes
\* the session and returns, and start sleeps: nothing is written.
StoreFails(w) ==
    /\ pc[w] \in {"idle", "selected", "claimed", "running"}
    /\ pc' = [pc EXCEPT ![w] = "sleep"]
    /\ cur' = [cur EXCEPT ![w] = 0]
    /\ mem' = [mem EXCEPT ![w] = Expired]
    /\ UNCHANGED << now, jobs, adds, dlq, hist, shutdown_event, stopped >>

StoreNext ==
    \/ Next
    \/ \E w \in Workers : StoreFails(w)

StoreSpec == Init /\ [][StoreNext]_vars

\* C15: persistence errors are recoverable: after a store operation has failed
\* the worker loop goes on, and no job is left in Processing with no worker
\* working on it (such a row is matched by no query, so it would stay
\* Processing forever).
C15_PersistenceRecoverable ==
    \A j \in Ids : jobs[j].status = PROCESSING => Holders(j) # {}

\* Worker w's step records a run that ended in the timeout.
TimeoutStep(w) ==
    /\ FailureStep(w)
    /\ jobs' = [jobs EXCEPT ![cur[w]] =
                  Flush(@, mem[w], Failed(mem[w], ErrTimeout, now), FailedStamps(mem[w]))]

\* C16: timeout handling: when a run ends in the timeout, the worker returns
\* from _execute_job normally and the job's record keeps its attempts, has the
\* timeout message as its error, and is Dead if attempts has reached
\* max_attempts and otherwise Pending with next_retry_at = now + backoff, the
\* rule of any other failure.
C16_TimeoutHandling ==
    [][ \A w \in Workers :
          TimeoutStep(w) =>
            LET j == cur[w] IN
            /\ pc'[w] = "sleep"
            /\ jobs'[j].attempts = jobs[j].attempts
            /\ jobs'[j].error = ErrTimeout
            /\ IF jobs[j].attempts >= jobs[j].max_attempts
               THEN jobs'[j].status = DEAD
               ELSE /\ jobs'[j].status = PENDING
                    /\ jobs'[j].next_retry_at = At(now + Backoff(jobs[j])) ]_vars

\* ------------------------------------------------------------ pool shutdown

\* SIGINT or SIGTERM: signal_handler sets the event (its joins have a timeout
\* and change nothing).
Signal ==
    /\ ~ shutdown_event
    /\ ~ stopped
    /\ shutdown_event' = TRUE
    /\ UNCHANGED << now, jobs, pc, cur, mem, adds, dlq, hist, stopped >>

\* Worker.start: the loop tests its condition, finds the event set and ends;
\* the thread is over.
Exit(w) ==
    /\ pc[w] = "sleep"
    /\ shutdown_event
    /\ pc' = [pc EXCEPT ![w] = "exited"]
    /\ UNCHANGED << now, jobs, cur, mem, adds, dlq, hist, shutdown_event, stopped >>

\* A start_workers whose final joins carry the handler's timeout: it returns
\* once the signal is set, whatever the worker threads are doing.
ReturnOnTimeout ==
    /\ ~ stopped
    /\ shutdown_event
    /\ stopped' = TRUE
    /\ UNCHANGED << now, jobs, pc, cur, mem, adds, dlq, hist, shutdown_event >>

\* start_workers: worker.join() has returned for every thread.
Return ==
    /\ ~ stopped
    /\ \A w \in Workers : pc[w] = "exited"
    /\ stopped' = TRUE
    /\ UNCHANGED << now, jobs, pc, cur, mem, adds, dlq, hist, shutdown_event >>

PoolNext ==
    \/ Next
    \/ Signal
    \/ \E w \in Workers : Exit(w)
    \/ Return

PoolSpec == Init /\ [][PoolNext]_vars

MaxLimit == 3

\* list_jobs' --status: absent, or one of the enum's values.
StatusOpts == {None} \cup { At(st) : st \in JobStatus }

\* query.filter(Job.status == JobStatus(status)), applied only if status is given.
Filtered(status) ==
    { i \in Ids : status = None \/ jobs[i].status = status[1] }

\* An ordering without .desc(): oldest first.
OrderByCreatedAtAsc(S) ==
    { q \in [1..Cardinality(S) -> S] :
        /\ \A a, b \in DOMAIN q : a # b => q[a] # q[b]
        /\ \A a, b \in DOMAIN q :
             a < b => jobs[q[a]].created_at[1] <= jobs[q[b]].created_at[1] }

\* order_by(Job.created_at.desc()): the orders of the rows S the database may
\* produce (rows with equal created_at come in any order).
OrderByCreatedAtDesc(S) ==
    { q \in [1..Cardinality(S) -> S] :
        /\ \A a, b \in DOMAIN q : a # b => q[a] # q[b]
        /\ \A a, b \in DOMAIN q :
             a < b => jobs[q[a]].created_at[1] >= jobs[q[b]].created_at[1] }

\* .limit(limit): the first limit rows.
Limit(q, limit) ==
    [ k \in 1..(IF limit < Len(q) THEN limit ELSE Len(q)) |-> q[k] ]

\* list_jobs(status, limit): the sequences of job ids it may print.
list_jobs(status, limit) ==
    { Limit(q, limit) : q \in OrderByCreatedAtDesc(Filtered(status)) }

Range(q) == { q[k] : k \in DOMAIN q }

WithStatus(status) ==
    { i \in Ids : status # None => jobs[i].status = status[1] }

Min(a, b) == IF a <= b THEN a ELSE b

\* C18: list filtering: on every store content, for every status filter and
\* every limit L >= 0, list_jobs returns only jobs of that status (any job if
\* there is no filter), each once, newest created first, min(L, number of such
\* jobs) of them, and no job it leaves out is newer than one it returns.
C18_ListFiltering ==
    \A status \in StatusOpts, L \in 0..MaxLimit :
      \A r \in list_jobs(status, L) :
        /\ Range(r) \subseteq WithStatus(status)
        /\ Cardinality(Range(r)) = Len(r)
        /\ Len(r) = Min(L, Cardinality(WithStatus(status)))
        /\ \A a, b \in DOMAIN r :
             a < b => jobs[r[a]].created_at[1] >= jobs[r[b]].created_at[1]
        /\ \A i \in WithStatus(status) \ Range(r), k \in DOMAIN r :
             jobs[i].created_at[1] <= jobs[r[k]].created_at[1]

\* Two jobs of one status, created at different times, and a list of that
\* status with limit 1 shows the newer one only.
C18_Witness ==
    /\ Len(jobs) = 2
    /\ jobs[1].status = jobs[2].status
    /\ jobs[1].created_at[1] < jobs[2].created_at[1]
    /\ list_jobs(At(jobs[1].status), 1) = { << 2 >> }

\* C19: eventual termination of every job, its bound: the command of a job
\* with a positive max_attempts is executed at most max_attempts times per
\* submission or DLQ reset (after which the job is Completed or Dead).
C19_BoundedExecutions ==
    \A j \in Ids :
      jobs[j].max_attempts >= 1 => hist[j].execs <= jobs[j].max_attempts

\* status' count for one status: query(Job).filter(Job.status == status).count().
Count(st) == Cardinality({ i \in Ids : jobs[i].status = st })

\* C20: the status Failed is unreachable: no job ever has it, what a worker
\* assigns for a failed execution is Pending with a next_retry_at or Dead, and
\* so the count of Failed jobs is 0 and a list filtered on Failed is empty.
C20_FailedUnreachable ==
    /\ \A j \in Ids : jobs[j].status # FAILED
    /\ \A w \in Workers, e \in {ErrExit, ErrTimeout} :
         pc[w] = "running" =>
           LET f == Failed(mem[w], e, now) IN
           \/ f.status = DEAD
           \/ f.status = PENDING /\ f.next_retry_at # None
    /\ Count(FAILED) = 0
    /\ \A L \in 0..MaxLimit : list_jobs(At(FAILED), L) = { << >> }

\* Failed executions have been recorded, one short of the cap and one at it.
C20_Witness ==
    \E j \in Ids :
      /\ hist[j].fails >= 2
      /\ jobs[j].status = DEAD
      /\ jobs[j].next_retry_at # None

====
